---- MODULE Spec2Model ----
(***************************************************************************)
(* Model of the Stream / Device / Mixer program of src/device.cpp (the     *)
(* second source file, src/unnamed/part_000, holds the same classes).      *)
(*                                                                         *)
(* One Mixer is modelled together with the streams a caller can hand to    *)
(* it.  A stream is a shared_ptr<Stream>; the model identifies a stream    *)
(* by the number its constructor received, so the same stream can be       *)
(* attached several times, as input and as output.                         *)
(*                                                                         *)
(* Mass flows are C++ doubles.  The model draws them from a small range    *)
(* of integers; every value and every sum it forms is exactly              *)
(* representable as a double, so double addition is exact on them and      *)
(* division by outputs.size() (always 1 when reached) returns its          *)
(* dividend.  A Stream's mass_flow has no initialiser: until the first     *)
(* setMassFlow the member is indeterminate, and each read of it yields an  *)
(* arbitrary value.                                                        *)
(***************************************************************************)
EXTENDS Integers, Sequences, FiniteSets

VARIABLES
    inputs,        \* Device::inputs, the sequence of attached input streams
    outputs,       \* Device::outputs, the sequence of attached output streams
    inputs_count,  \* Mixer::_inputs_count
    mass_flow,     \* Stream::mass_flow of every stream
    garbage,       \* a mass_flow that was never stored has been read
    last,          \* the call that just returned to the caller and its outcome
    trail          \* the caller's latest calls, kept while they follow a scenario

vars == <<inputs, outputs, inputs_count, mass_flow, garbage, last, trail>>

----------------------------------------------------------------------------
(* Bounds of the model *)

\* longest input sequence explored; it is reached only by a Mixer whose
\* capacity test never fires
MaxInputs == 2

\* a call of updateOutputs is explored when its result is in -MaxFlow .. MaxFlow
MaxFlow == 2

----------------------------------------------------------------------------
(* Program constants and value sets *)

MIXER_OUTPUTS == 1

\* the streams the caller created: Stream(1), Stream(2), Stream(3)
Streams == {1, 2, 3}

\* the arguments the caller passes to Mixer(int)
Capacities == {-1, 0, 1, 2}

\* the mass flows the caller passes to setMassFlow: a negative one, zero
\* and a positive one, as in Test1 to Test7
SetValues == {0 - 1, 0, 1}

FlowValues == (0 - MaxFlow) .. MaxFlow

\* mass_flow[s] is <<v>> once a value v was stored in stream s, and <<>>
\* from construction to the first store: the member has no initialiser
Unset == <<>>

Assigned(s) == mass_flow[s] # Unset

Flow(s) == mass_flow[s][1]

\* every stream of seq has a stored mass flow in mf
AllAssigned(seq, mf) == \A i \in 1 .. Len(seq) : mf[seq[i]] # Unset

\* std::size_t arithmetic is modulo 2^64; the model keeps a modulus that is
\* far above every size it reaches and that fits the 32-bit integers of TLC
SizeModulus == 2 ^ 30

\* the conversion of the int _inputs_count to std::size_t in
\* inputs.size() == _inputs_count
ToSizeT(n) == n % SizeModulus

Ok == "ok"
TooMuchInputs == "Too much inputs"
TooMuchOutputs == "Too much outputs"
ShouldSetOutputs == "Should set outputs before update"

----------------------------------------------------------------------------
(* The caller: what it observes of each call *)

Constructed == [op |-> "Mixer", res |-> Ok]

\* Test6: update, change an attached input, update again
Recompute ==
    << <<"updateOutputs", Ok>>, <<"setMassFlow", "input">>, <<"updateOutputs", Ok>> >>

\* two updates in a row
Repeat == << <<"updateOutputs", Ok>>, <<"updateOutputs", Ok>> >>

\* Test7 continued: the update that fails for want of an output, then the
\* output is attached and the update is called again
Recover ==
    << <<"updateOutputs", ShouldSetOutputs>>, <<"addOutput", Ok>>, <<"updateOutputs", Ok>> >>

Scenarios == {Recompute, Repeat, Recover}

IsPrefix(p, q) == Len(p) <= Len(q) /\ SubSeq(q, 1, Len(p)) = p

\* the longest end of the call log that is the beginning of a scenario
RECURSIVE Watch(_)
Watch(log) ==
    IF \E sc \in Scenarios : IsPrefix(log, sc) THEN log ELSE Watch(Tail(log))

IsInput(s) == \E i \in 1 .. Len(inputs) : inputs[i] = s

IsOutput(s) == \E i \in 1 .. Len(outputs) : outputs[i] = s

\* a call that returned normally
Returned(op, how) ==
    /\ last' = [op |-> op, res |-> Ok]
    /\ trail' = Watch(Append(trail, <<op, how>>))

\* a call that threw ex
Threw(op, ex) ==
    /\ last' = [op |-> op, res |-> ex]
    /\ trail' = Watch(Append(trail, <<op, ex>>))

----------------------------------------------------------------------------
(* Stream *)

\* Stream::getMassFlow: the values a read of stream s can yield
getMassFlow(s) ==
    IF Assigned(s) THEN {Flow(s)} ELSE SetValues

\* Stream::setMassFlow
setMassFlow(s, m) ==
    /\ mass_flow' = [mass_flow EXCEPT ![s] = <<m>>]
    /\ UNCHANGED <<inputs, outputs, inputs_count, garbage>>
    /\ Returned("setMassFlow", IF IsInput(s) THEN "input" ELSE "other")

----------------------------------------------------------------------------
(* Mixer.  Its addInput and addOutput hide the non-virtual ones of Device,  *)
(* which no caller of a Mixer reaches.                                      *)

\* variant: the capacity test written with > instead of ==
addInputPastCapacity(s) ==
    IF ToSizeT(Len(inputs)) > ToSizeT(inputs_count)
    THEN /\ Threw("addInput", TooMuchInputs)
         /\ UNCHANGED <<inputs, outputs, inputs_count, mass_flow, garbage>>
    ELSE /\ Len(inputs) < MaxInputs
         /\ inputs' = Append(inputs, s)
         /\ UNCHANGED <<outputs, inputs_count, mass_flow, garbage>>
         /\ Returned("addInput", Ok)

\* Mixer::addInput
addInput(s) ==
    IF ToSizeT(Len(inputs)) = ToSizeT(inputs_count)
    THEN /\ Threw("addInput", TooMuchInputs)
         /\ UNCHANGED <<inputs, outputs, inputs_count, mass_flow, garbage>>
    ELSE /\ Len(inputs) < MaxInputs
         /\ inputs' = Append(inputs, s)
         /\ UNCHANGED <<outputs, inputs_count, mass_flow, garbage>>
         /\ Returned("addInput", Ok)

\* variant: the capacity test written with > instead of ==
addOutputPastCapacity(s) ==
    IF Len(outputs) > MIXER_OUTPUTS
    THEN /\ Threw("addOutput", TooMuchOutputs)
         /\ UNCHANGED <<inputs, outputs, inputs_count, mass_flow, garbage>>
    ELSE /\ outputs' = Append(outputs, s)
         /\ UNCHANGED <<inputs, inputs_count, mass_flow, garbage>>
         /\ Returned("addOutput", Ok)

\* Mixer::addOutput
addOutput(s) ==
    IF Len(outputs) = MIXER_OUTPUTS
    THEN /\ Threw("addOutput", TooMuchOutputs)
         /\ UNCHANGED <<inputs, outputs, inputs_count, mass_flow, garbage>>
    ELSE /\ outputs' = Append(outputs, s)
         /\ UNCHANGED <<inputs, inputs_count, mass_flow, garbage>>
         /\ Returned("addOutput", Ok)

\* variant: the loop starts at the second input
RECURSIVE SumSkippingFirst(_)
SumSkippingFirst(n) ==
    IF n <= 1 THEN {0}
    ELSE {a + b : a \in SumSkippingFirst(n - 1), b \in getMassFlow(inputs[n])}

\* the values sum_mass_flow can hold after the loop over the first n inputs
RECURSIVE SumAfter(_)
SumAfter(n) ==
    IF n = 0 THEN {0}
    ELSE {a + b : a \in SumAfter(n - 1), b \in getMassFlow(inputs[n])}

\* variant: an output that already holds a value keeps it
SetOutputsOnce(output_mass) ==
    [s \in Streams |->
        IF IsOutput(s) /\ ~Assigned(s) THEN <<output_mass>> ELSE mass_flow[s]]

\* variant: the storing loop runs over the inputs
SetOutputsOverInputs(output_mass) ==
    [s \in Streams |-> IF IsInput(s) THEN <<output_mass>> ELSE mass_flow[s]]

\* the loop that stores output_mass in every output stream
SetOutputs(output_mass) ==
    [s \in Streams |-> IF IsOutput(s) THEN <<output_mass>> ELSE mass_flow[s]]

\* variant: no test for missing outputs; the storing loop then runs over
\* nothing and the call returns
updateOutputsUnchecked ==
    \E sum_mass_flow \in SumAfter(Len(inputs)) :
        /\ garbage' = (garbage \/ ~AllAssigned(inputs, mass_flow))
        /\ IF outputs = <<>>
           THEN /\ Returned("updateOutputs", Ok)
                /\ UNCHANGED <<inputs, outputs, inputs_count, mass_flow>>
           ELSE LET output_mass == sum_mass_flow \div Len(outputs) IN
                /\ output_mass \in FlowValues
                /\ mass_flow' = SetOutputs(output_mass)
                /\ UNCHANGED <<inputs, outputs, inputs_count>>
                /\ Returned("updateOutputs", Ok)

\* variant: the sum is divided by the number of inputs
updateOutputsAveraging ==
    \E sum_mass_flow \in SumAfter(Len(inputs)) :
        /\ garbage' = (garbage \/ ~AllAssigned(inputs, mass_flow))
        /\ IF outputs = <<>>
           THEN /\ Threw("updateOutputs", ShouldSetOutputs)
                /\ UNCHANGED <<inputs, outputs, inputs_count, mass_flow>>
           ELSE LET output_mass ==
                        IF inputs = <<>> THEN 0 ELSE sum_mass_flow \div Len(inputs) IN
                /\ output_mass \in FlowValues
                /\ mass_flow' = SetOutputs(output_mass)
                /\ UNCHANGED <<inputs, outputs, inputs_count>>
                /\ Returned("updateOutputs", Ok)

\* variant: the sum starts from the value the output holds
updateOutputsAccumulating ==
    \E sum_mass_flow \in SumAfter(Len(inputs)) :
        /\ garbage' = (garbage \/ ~AllAssigned(inputs, mass_flow))
        /\ IF outputs = <<>>
           THEN /\ Threw("updateOutputs", ShouldSetOutputs)
                /\ UNCHANGED <<inputs, outputs, inputs_count, mass_flow>>
           ELSE LET held == IF Assigned(outputs[1]) THEN Flow(outputs[1]) ELSE 0
                    output_mass == (held + sum_mass_flow) \div Len(outputs) IN
                /\ output_mass \in FlowValues
                /\ mass_flow' = SetOutputs(output_mass)
                /\ UNCHANGED <<inputs, outputs, inputs_count>>
                /\ Returned("updateOutputs", Ok)

\* variant: the update also refuses to run until the Mixer holds as many
\* inputs as its capacity
updateOutputsWhenFull ==
    \E sum_mass_flow \in SumAfter(Len(inputs)) :
        /\ garbage' = (garbage \/ ~AllAssigned(inputs, mass_flow))
        /\ IF outputs = <<>> \/ Len(inputs) < inputs_count
           THEN /\ Threw("updateOutputs", ShouldSetOutputs)
                /\ UNCHANGED <<inputs, outputs, inputs_count, mass_flow>>
           ELSE LET output_mass == sum_mass_flow \div Len(outputs) IN
                /\ output_mass \in FlowValues
                /\ mass_flow' = SetOutputs(output_mass)
                /\ UNCHANGED <<inputs, outputs, inputs_count>>
                /\ Returned("updateOutputs", Ok)

\* Mixer::updateOutputs
updateOutputs ==
    \E sum_mass_flow \in SumAfter(Len(inputs)) :
        /\ garbage' = (garbage \/ ~AllAssigned(inputs, mass_flow))
        /\ IF outputs = <<>>
           THEN /\ Threw("updateOutputs", ShouldSetOutputs)
                /\ UNCHANGED <<inputs, outputs, inputs_count, mass_flow>>
           ELSE LET output_mass == sum_mass_flow \div Len(outputs) IN
                /\ output_mass \in FlowValues
                /\ mass_flow' = SetOutputs(output_mass)
                /\ UNCHANGED <<inputs, outputs, inputs_count>>
                /\ Returned("updateOutputs", Ok)

----------------------------------------------------------------------------
(* The program: a Mixer just constructed and streams just created, then any *)
(* sequence of calls                                                        *)

Init ==
    /\ inputs = <<>>
    /\ outputs = <<>>
    /\ inputs_count \in Capacities
    /\ mass_flow = [s \in Streams |-> Unset]
    /\ garbage = FALSE
    /\ last = Constructed
    /\ trail = <<>>

Next ==
    \/ \E s \in Streams, m \in SetValues : setMassFlow(s, m)
    \/ \E s \in Streams : addInput(s)
    \/ \E s \in Streams : addOutput(s)
    \/ updateOutputs

Spec == Init /\ [][Next]_vars

\* the values the members hold
TypeOK ==
    /\ inputs \in Seq(Streams)
    /\ outputs \in Seq(Streams)
    /\ inputs_count \in Capacities
    /\ \A s \in Streams : mass_flow[s] = Unset \/ (Len(mass_flow[s]) = 1 /\ Flow(s) \in FlowValues)
    /\ garbage \in BOOLEAN
    /\ last.op \in {"Mixer", "setMassFlow", "addInput", "addOutput", "updateOutputs"}
    /\ last.res \in {Ok, TooMuchInputs, TooMuchOutputs, ShouldSetOutputs}
    /\ \E sc \in Scenarios : IsPrefix(trail, sc)

----------------------------------------------------------------------------
(* Vocabulary of the properties *)

\* the step is a call of op / a call of op that returned normally
Called(op) == last'.op = op

Succeeded(op) == last'.op = op /\ last'.res = Ok

\* the sum of the mass flows mf of the streams of seq, a stream counted as
\* often as it occurs
RECURSIVE SumFlows(_, _)
SumFlows(seq, mf) ==
    IF seq = <<>> THEN 0 ELSE mf[Head(seq)][1] + SumFlows(Tail(seq), mf)

\* no output stream is also attached as an input
Separate == \A i \in 1 .. Len(outputs) : ~IsInput(outputs[i])

\* every output stream holds the value v after the step
OutputsHold(v) == \A i \in 1 .. Len(outputs) : mass_flow'[outputs[i]] = <<v>>

----------------------------------------------------------------------------
(* C1: with one output attached and the inputs distinct from it, a          *)
(* successful updateOutputs() sets the output's mass flow to exactly the    *)
(* sum of the current input mass flows, whatever their signs: a + b for two *)
(* inputs a and b, 0 when no input is attached.                             *)

C1_OutputIsSum ==
    [][(/\ Succeeded("updateOutputs")
        /\ Len(outputs) = 1
        /\ Separate
        /\ AllAssigned(inputs, mass_flow))
       => /\ mass_flow'[outputs[1]] = <<SumFlows(inputs, mass_flow')>>
          /\ Len(inputs) = 0 => mass_flow'[outputs[1]] = <<0>>
          /\ Len(inputs) = 2 =>
                mass_flow'[outputs[1]] = <<Flow(inputs[1]) + Flow(inputs[2])>>]_vars

\* a negative and a positive input were summed into a separate output, the
\* way Test4 does
C1_Witness ==
    /\ last = [op |-> "updateOutputs", res |-> Ok]
    /\ inputs = <<1, 2>>
    /\ outputs = <<3>>
    /\ mass_flow = [s \in Streams |-> <<IF s = 1 THEN 1 ELSE IF s = 2 THEN 0 - 1 ELSE 0>>]

----------------------------------------------------------------------------
(* C2: when the number of attached inputs equals the capacity given to the  *)
(* constructor, addInput fails with "Too much inputs" and leaves the input  *)
(* sequence, the outputs and every mass flow unchanged.                     *)

C2_AddInputAtCapacity ==
    [][(Called("addInput") /\ Len(inputs) = inputs_count)
       => /\ last'.res = TooMuchInputs
          /\ UNCHANGED <<inputs, outputs, mass_flow, inputs_count>>]_vars

\* Test3: a third addInput on Mixer(2) has just thrown
C2_Witness ==
    /\ last = [op |-> "addInput", res |-> TooMuchInputs]
    /\ inputs_count = 2
    /\ Len(inputs) = 2
    /\ Len(outputs) = 1

----------------------------------------------------------------------------
(* C3: once one output is attached, every further addOutput fails with      *)
(* "Too much outputs" and leaves the output sequence as it was, however     *)
(* many inputs are attached.                                                *)

C3_AddOutputWhenAttached ==
    [][(Called("addOutput") /\ Len(outputs) = 1)
       => /\ last'.res = TooMuchOutputs
          /\ outputs' = outputs]_vars

\* Test2: addOutput on a Mixer with two inputs and an output has just thrown
C3_Witness ==
    /\ last = [op |-> "addOutput", res |-> TooMuchOutputs]
    /\ Len(outputs) = 1
    /\ Len(inputs) = 2

----------------------------------------------------------------------------
(* C4: updateOutputs() with no output attached fails with "Should set       *)
(* outputs before update" for any number of inputs, and changes no mass     *)
(* flow and neither sequence.                                               *)

C4_UpdateWithoutOutput ==
    [][(Called("updateOutputs") /\ outputs = <<>>)
       => /\ last'.res = ShouldSetOutputs
          /\ UNCHANGED <<mass_flow, inputs, outputs>>]_vars

\* Test7: updateOutputs on a Mixer with two inputs and no output has just thrown
C4_Witness ==
    /\ last = [op |-> "updateOutputs", res |-> ShouldSetOutputs]
    /\ Len(inputs) = 2
    /\ outputs = <<>>
    /\ AllAssigned(inputs, mass_flow)

----------------------------------------------------------------------------
(* C5: in every reachable state, for every capacity given to the            *)
(* constructor (0 and negative values included), the number of attached     *)
(* inputs is at most the capacity and the number of attached outputs is at  *)
(* most 1.                                                                  *)

C5_WithinCapacity ==
    /\ Len(inputs) <= inputs_count
    /\ Len(outputs) <= MIXER_OUTPUTS

----------------------------------------------------------------------------
(* C6: right after every successful updateOutputs(), in the state the call  *)
(* leaves, every output's mass flow is (sum of the mass flows of the        *)
(* attached inputs) / (number of outputs), also when a stream is attached   *)
(* twice as input or as input and output.                                   *)

\* the claim as stated, on a Mixer that holds no more inputs than its
\* capacity and has read stored mass flows only
C6_PostStateSum ==
    [][(/\ Succeeded("updateOutputs")
        /\ Len(inputs) <= inputs_count
        /\ ~garbage')
       => \A i \in 1 .. Len(outputs) :
             Len(outputs) * mass_flow'[outputs[i]][1] = SumFlows(inputs, mass_flow')]_vars

\* as amended: the sum is the one of the flows the inputs had when the call
\* began; it is the sum in the state the call leaves when no output is
\* also an input
C6_PreStateSum ==
    [][(Succeeded("updateOutputs") /\ AllAssigned(inputs, mass_flow))
       => /\ \A i \in 1 .. Len(outputs) :
                Len(outputs) * mass_flow'[outputs[i]][1] = SumFlows(inputs, mass_flow)
          /\ Separate =>
                \A i \in 1 .. Len(outputs) :
                   Len(outputs) * mass_flow'[outputs[i]][1] = SumFlows(inputs, mass_flow')]_vars

\* an update has run on a Mixer whose output is also one of its two inputs
C6_Witness ==
    /\ last = [op |-> "updateOutputs", res |-> Ok]
    /\ Len(inputs) = 2
    /\ Len(outputs) = 1
    /\ IsInput(outputs[1])
    /\ AllAssigned(inputs, mass_flow)
    /\ Flow(outputs[1]) # 0

----------------------------------------------------------------------------
(* C7: updateOutputs() recomputes from the current input flows: after a     *)
(* successful update, a setMassFlow on an attached input and another update *)
(* leave the output equal to the sum of the new input flows.                *)

C7_Recomputes ==
    [][(/\ trail = SubSeq(Recompute, 1, 2)
        /\ Succeeded("updateOutputs")
        /\ AllAssigned(inputs, mass_flow))
       => /\ OutputsHold(SumFlows(inputs, mass_flow))
          /\ Separate => OutputsHold(SumFlows(inputs, mass_flow'))]_vars

\* Test6 has run to its end: inputs 1 and 1 gave 2, the first input was set
\* to -1 and the update gave 0
C7_Witness ==
    /\ trail = Recompute
    /\ inputs = <<1, 2>>
    /\ outputs = <<3>>
    /\ mass_flow = [s \in Streams |-> <<IF s = 1 THEN 0 - 1 ELSE IF s = 2 THEN 1 ELSE 0>>]

----------------------------------------------------------------------------
(* C8: two successful updateOutputs() calls in a row, with no other call    *)
(* between them, leave the output with the same mass flow after the second  *)
(* as after the first, for any Mixer with an output attached.               *)

\* the claim as stated, on a Mixer that holds no more inputs than its
\* capacity and has read stored mass flows only
C8_Idempotent ==
    [][(/\ last = [op |-> "updateOutputs", res |-> Ok]
        /\ Succeeded("updateOutputs")
        /\ Len(inputs) <= inputs_count
        /\ ~garbage')
       => \A i \in 1 .. Len(outputs) : mass_flow'[outputs[i]] = mass_flow[outputs[i]]]_vars

\* as amended: when no output is also attached as an input
C8_IdempotentSeparate ==
    [][(/\ last = [op |-> "updateOutputs", res |-> Ok]
        /\ Succeeded("updateOutputs")
        /\ AllAssigned(inputs, mass_flow)
        /\ Separate)
       => \A i \in 1 .. Len(outputs) : mass_flow'[outputs[i]] = mass_flow[outputs[i]]]_vars

\* the second of two updates in a row has returned
C8_Witness ==
    /\ trail = Repeat
    /\ Len(inputs) = 2
    /\ Len(outputs) = 1
    /\ Separate
    /\ AllAssigned(inputs, mass_flow)
    /\ Flow(outputs[1]) = 2

----------------------------------------------------------------------------
(* C9: the Mixer has no hidden mode: what updateOutputs() does (the error   *)
(* or the value it writes) is decided by the input sequence, the output     *)
(* sequence and the mass flows at the call, whatever calls came before,     *)
(* failed ones included; after a missing-output failure, attaching an       *)
(* output and updating succeeds.                                            *)

\* the outcome as a function of the sequences and the flows alone
OutcomeOf(ins, outs, mf) ==
    IF outs = <<>>
    THEN [res |-> ShouldSetOutputs, flows |-> mf]
    ELSE [res |-> Ok,
          flows |-> [s \in Streams |->
                        IF \E i \in 1 .. Len(outs) : outs[i] = s
                        THEN <<SumFlows(ins, mf) \div Len(outs)>> ELSE mf[s]]]

C9_NoHiddenMode ==
    [][Called("updateOutputs")
       => /\ last'.res = (IF outputs = <<>> THEN ShouldSetOutputs ELSE Ok)
          /\ AllAssigned(inputs, mass_flow) =>
                /\ last'.res = OutcomeOf(inputs, outputs, mass_flow).res
                /\ mass_flow' = OutcomeOf(inputs, outputs, mass_flow).flows
          /\ UNCHANGED <<inputs, outputs, inputs_count>>]_vars

\* the update failed for want of an output, the output was attached, and the
\* update has now succeeded
C9_Witness ==
    /\ trail = Recover
    /\ last = [op |-> "updateOutputs", res |-> Ok]
    /\ Len(inputs) = 2
    /\ AllAssigned(inputs, mass_flow)

----------------------------------------------------------------------------
(* C10: frame.  A successful updateOutputs() changes only the mass flows of *)
(* the output streams; a successful addInput only appends one stream to the *)
(* inputs; a successful addOutput only changes the outputs; neither changes *)
(* a mass flow, and no call removes an attached stream.                     *)

C10_Frame ==
    [][/\ Succeeded("updateOutputs") =>
            /\ UNCHANGED <<inputs, outputs, inputs_count>>
            /\ \A s \in Streams : ~IsOutput(s) => mass_flow'[s] = mass_flow[s]
       /\ Succeeded("addInput") =>
            /\ \E s \in Streams : inputs' = Append(inputs, s)
            /\ UNCHANGED <<outputs, inputs_count, mass_flow>>
       /\ Succeeded("addOutput") =>
            /\ \E s \in Streams : outputs' = Append(outputs, s)
            /\ UNCHANGED <<inputs, inputs_count, mass_flow>>
       /\ IsPrefix(inputs, inputs')
       /\ IsPrefix(outputs, outputs')]_vars

\* an update has run beside a stream that is attached nowhere and holds a
\* value that is not the one written to the output
C10_Witness ==
    /\ last = [op |-> "updateOutputs", res |-> Ok]
    /\ inputs = <<1>>
    /\ outputs = <<2>>
    /\ AllAssigned(<<1, 2, 3>>, mass_flow)
    /\ Flow(3) # Flow(2)

====
